---- MODULE Spec2Model ----
(***************************************************************************)
(* Model of src/main.rs: a knowledge-based secret vault.  A secret field   *)
(* element is the constant term of a random polynomial; one share per      *)
(* question is masked with a key hashed from the expected answer, and a    *)
(* double-hash tag of the answer is stored beside it.                      *)
(*                                                                         *)
(* The prime field of main.rs:10 (p = 2^128 - 159) is scaled down to a     *)
(* small prime just below a power of two, so that the rejection-sampling   *)
(* branch of FieldElement::hash (candidate >= p) is reachable.  SHA-256 is *)
(* an external collaborator; it is drawn from a small family of functions  *)
(* on a scaled-down digest space.                                          *)
(***************************************************************************)
EXTENDS Integers, Sequences, FiniteSets, TLC

\* ---------------------------------------------------------------- sizes
\* PrimeFieldModulus (main.rs:10), scaled: a prime just below 2^3.
Modulus == 7
\* Number of candidates a max_fill-byte prefix can hold (main.rs:28), scaled.
CandidateSpace == 8
\* Number of 256-bit digests (main.rs:32), scaled: two "halves" of 3 bits.
DigestSpace == 16

\* Bounds of the model.
MaxQuestions == 3
MaxAnswers == 3
MaxShares == 3

Field == 0..(Modulus - 1)
Digest == 0..(DigestSpace - 1)

\* The answer strings of main (main.rs:206), as far as the model draws them.
AnswerSet == {"d", "e"}
\* as_bytes() of the one-byte answers (main.rs:27).
StrBytes == [a \in AnswerSet |-> IF a = "d" THEN 100 ELSE 101]

\* All sequences over S of length at most n.
SeqsUpTo(S, n) == UNION {[1..m -> S] : m \in 0..n}

VARIABLES
    sha,          \* the SHA-256 function in use: [mul, add]
    secret,       \* s, the secret handed to Questionnair::new / Polynomial::new
    questions,    \* questions handed to Questionnair::new
    answers,      \* answers handed to Questionnair::new
    polynomial,   \* the Polynomial built by Polynomial::new
    vault,        \* the Questionnair: [questions, tags, points]
    supplied,     \* answers handed to answer()
    idx,          \* i, the position of answer()'s loop (0-based)
    shares,       \* the shares vector of answer() / the argument of reconstruct
    result,       \* outcome of the last call: [kind, val]
    pc            \* position of the program

vars == <<sha, secret, questions, answers, polynomial, vault, supplied, idx,
          shares, result, pc>>

\* ---------------------------------------------------------------- field
\* Arithmetic generated by #[derive(PrimeField)] (main.rs:9-13).
FeAdd(a, b) == (a + b) % Modulus
FeSub(a, b) == (a - b + Modulus) % Modulus
FeMul(a, b) == (a * b) % Modulus
FeNeg(a) == (Modulus - a) % Modulus
\* invert() is a CtOption: none for zero.
FeInvertible(a) == a # 0
FeInvert(a) == CHOOSE b \in Field : FeMul(a, b) = 1

\* FieldElement::new (main.rs:16-22): from_repr of the integer; every u64 is
\* below the real modulus, and every index of the model is below Modulus.
FeNew(v) == IF v < Modulus THEN v ELSE -1

\* ---------------------------------------------------------------- hashing
\* Sha256 of a byte string given as a number, under the function sha.
Sha256(h, m) == (h.mul * m + h.add) % DigestSpace

\* bytes[..max_fill] <- hash[..max_fill] (main.rs:37): the low half, little endian.
Candidate(d) == d % CandidateSpace

\* from_repr(repr) is Some exactly for canonical values (main.rs:41).
Canonical(c) == c < Modulus

\* The loop of FieldElement::hash (main.rs:29-45) from digest d on, d being the
\* round-th digest.  A chain longer than DigestSpace has cycled: the loop never
\* exits, rounds = 0 marks that.
RECURSIVE HashLoop(_, _, _)
HashLoop(h, d, round) ==
    IF Canonical(Candidate(d)) THEN [rounds |-> round, key |-> Candidate(d)]
    ELSE IF round > DigestSpace THEN [rounds |-> 0, key |-> 0]
    ELSE HashLoop(h, Sha256(h, d), round + 1)

\* FieldElement::hash (main.rs:24-46).
HashRun(h, a) == HashLoop(h, Sha256(h, StrBytes[a]), 1)
Hash(h, a) == HashRun(h, a).key
HashTerminates(h, a) == HashRun(h, a).rounds # 0

\* tag_from_answer (main.rs:96-106): H(H(a)).
tag_from_answer(h, a) == Sha256(h, Sha256(h, StrBytes[a]))

\* The family the SHA-256 function is drawn from: affine maps on the digest
\* space.  The odd multiplier gives permutations (no collisions), the even one
\* gives colliding tags; with offset 0 every first candidate of an answer is
\* canonical, with offset 3 the first candidate of "d" is not.
ShaMuls == {5, 8}
ShaAdds == {0, 3}
ShaFamily == {[mul |-> m, add |-> s] : m \in ShaMuls, s \in ShaAdds}

\* The tag is collision-free on the answer space.
TagCollisionFree(h) ==
    \A a, b \in AnswerSet : tag_from_answer(h, a) = tag_from_answer(h, b) => a = b

\* ---------------------------------------------------------------- polynomial
Reverse(s) == [i \in 1..Len(s) |-> s[Len(s) + 1 - i]]

\* Number of FieldElement::random() draws of Polynomial::new: the length of
\* the range 1..t-1 (main.rs:151), for t >= 1.
NumRandomDocumented(t) == t - 1
NumRandom(t) == IF t >= 2 THEN t - 2 ELSE 0

\* The draws Polynomial::new may get from FieldElement::random (main.rs:48-59).
RandomDraws(t) == [1..NumRandom(t) -> Field]

\* Polynomial::new (main.rs:149-161) for t >= 1, rnd being the draws in order.
PolynomialNew(t, s, rnd) ==
    [degree |-> t - 1, coefficients |-> Reverse(<<s>> \o rnd)]

\* The loop of Polynomial::evaluate (main.rs:166-168); i is the 0-based index.
RECURSIVE EvaluateLoop(_, _, _, _)
EvaluateLoop(p, x, i, acc) ==
    IF i >= p.degree THEN acc
    ELSE EvaluateLoop(p, x, i + 1, FeAdd(FeMul(acc, x), p.coefficients[i + 1]))

\* Polynomial::evaluate (main.rs:164-170).
Evaluate(p, x) == EvaluateLoop(p, x, 1, p.coefficients[1])

\* Polynomial::share (main.rs:173-181).
Share(p, n) == [i \in 1..n |-> [x |-> FeNew(i), y |-> Evaluate(p, FeNew(i))]]

\* The index range of both loops of Polynomial::reconstruct, 0..num_keys - 1
\* exclusive (main.rs:189, 193), as 1-based positions.
ReconstructRangeAll(n) == 1..n
ReconstructRange(n) == 1..(n - 1)

\* d of main.rs:195 and n of main.rs:196 for position i, folded over js.
RECURSIVE BasisD(_, _, _)
BasisD(sh, i, js) ==
    IF js = {} THEN 1
    ELSE LET j == CHOOSE k \in js : TRUE
         IN  IF j = i THEN BasisD(sh, i, js \ {j})
             ELSE FeMul(FeNeg(sh[j].x), BasisD(sh, i, js \ {j}))

RECURSIVE BasisN(_, _, _)
BasisN(sh, i, js) ==
    IF js = {} THEN 1
    ELSE LET j == CHOOSE k \in js : TRUE
         IN  IF j = i THEN BasisN(sh, i, js \ {j})
             ELSE FeMul(FeSub(sh[i].x, sh[j].x), BasisN(sh, i, js \ {j}))

\* val of main.rs:199 summed over the positions is.
RECURSIVE ReconstructSum(_, _, _)
ReconstructSum(sh, is, js) ==
    IF is = {} THEN 0
    ELSE LET i == CHOOSE k \in is : TRUE
         IN  FeAdd(FeMul(FeMul(sh[i].y, BasisD(sh, i, js)),
                         FeInvert(BasisN(sh, i, js))),
                   ReconstructSum(sh, is \ {i}, js))

\* Polynomial::reconstruct (main.rs:184-202).  It panics on an empty slice
\* (num_keys - 1 underflows, or shares[0] is out of bounds) and when an n is
\* zero (unwrap of an empty CtOption).
Reconstruct(sh) ==
    LET r == ReconstructRange(Len(sh))
    IN  IF Len(sh) = 0 THEN [kind |-> "Panic", val |-> 0]
        ELSE IF \E i \in r : ~FeInvertible(BasisN(sh, i, r))
             THEN [kind |-> "Panic", val |-> 0]
        ELSE [kind |-> "Ok", val |-> ReconstructSum(sh, r, r)]

\* ---------------------------------------------------------------- results
NoResult == [kind |-> "None", val |-> 0]
Ok(v) == [kind |-> "Ok", val |-> v]
WrongAnswer == [kind |-> "WrongAnswer", val |-> 0]
Panic == [kind |-> "Panic", val |-> 0]

NoPolynomial == [degree |-> 0, coefficients |-> <<>>]
NoVault == [questions |-> <<>>, tags |-> <<>>, points |-> <<>>]

\* The question strings of main (main.rs:210), the first k of them.
MainQuestions == <<"a", "b", "c", "b", "c">>
Questions(k) == SubSeq(MainQuestions, 1, k)

\* ---------------------------------------------------------------- enrollment
\* The vault Questionnair::new builds from polynomial p (main.rs:76-91).
QuestionnairOf(h, p, qs, as) ==
    LET degree == Len(qs)
        sh == Share(p, degree)
    IN  [questions |-> qs,
         tags |-> [i \in 1..degree |-> tag_from_answer(h, as[i])],
         points |-> [i \in 1..degree |-> FeAdd(sh[i].y, Hash(h, as[i]))]]

\* Questionnair::new (main.rs:73-92).  With no question, t - 1 underflows in
\* Polynomial::new: a panic in a checked build, an endless loop of pushes in an
\* unchecked one.  With fewer answers than questions, answers[ans] panics.
QuestionnairNew ==
    /\ pc = "start"
    /\ LET degree == Len(questions)
           reach == IF Len(answers) < degree THEN Len(answers) ELSE degree
       IN  IF degree = 0
           THEN /\ pc' \in {"new_panicked", "new_diverged"}
                /\ UNCHANGED <<polynomial, vault>>
           ELSE \E rnd \in RandomDraws(degree) :
                  /\ polynomial' = PolynomialNew(degree, secret, rnd)
                  /\ IF \E i \in 1..reach : ~HashTerminates(sha, answers[i])
                     THEN pc' = "new_diverged" /\ UNCHANGED vault
                     ELSE IF Len(answers) < degree
                     THEN pc' = "new_panicked" /\ UNCHANGED vault
                     ELSE /\ vault' = QuestionnairOf(sha, polynomial', questions, answers)
                          /\ pc' = "enrolled"
    /\ UNCHANGED <<sha, secret, questions, answers, supplied, idx, shares, result>>

\* ---------------------------------------------------------------- recovery
\* answer (main.rs:112-113): the call, with its answers.
AnswerBegin ==
    /\ pc = "enrolled"
    /\ \E sup \in SeqsUpTo(AnswerSet, MaxAnswers) : supplied' = sup
    /\ idx' = 0
    /\ shares' = <<>>
    /\ pc' = "verifying"
    /\ UNCHANGED <<sha, secret, questions, answers, polynomial, vault, result>>

\* tag != questionnair.tags[i] (main.rs:117), i 0-based.
TagMismatch(h, v, ans, i) == tag_from_answer(h, ans) # v.tags[i + 1]

\* The share pushed for position i (main.rs:121-126).
Unmask(h, v, ans, i) ==
    [x |-> FeNew(i + 1), y |-> FeSub(v.points[i + 1], Hash(h, ans))]

\* One iteration of the loop of answer (main.rs:115-128).
AnswerStep ==
    /\ pc = "verifying"
    /\ idx < Len(supplied)
    /\ LET ans == supplied[idx + 1]
       IN  IF idx >= Len(vault.tags)
           THEN /\ result' = Panic
                /\ pc' = "answer_panicked"
                /\ UNCHANGED <<idx, shares>>
           ELSE IF TagMismatch(sha, vault, ans, idx)
           THEN /\ result' = WrongAnswer
                /\ pc' = "rejected"
                /\ UNCHANGED <<idx, shares>>
           ELSE IF ~HashTerminates(sha, ans)
           THEN /\ pc' = "answer_diverged"
                /\ UNCHANGED <<idx, shares, result>>
           ELSE /\ shares' = Append(shares, Unmask(sha, vault, ans, idx))
                /\ idx' = idx + 1
                /\ UNCHANGED <<result, pc>>
    /\ UNCHANGED <<sha, secret, questions, answers, polynomial, vault, supplied>>

\* The end of answer (main.rs:129-130).
AnswerReconstruct ==
    /\ pc = "verifying"
    /\ idx = Len(supplied)
    /\ result' = Reconstruct(shares)
    /\ pc' = IF result'.kind = "Ok" THEN "done" ELSE "answer_panicked"
    /\ UNCHANGED <<sha, secret, questions, answers, polynomial, vault, supplied,
                   idx, shares>>

Init ==
    /\ sha \in ShaFamily
    /\ secret \in Field
    /\ questions \in {Questions(k) : k \in 0..MaxQuestions}
    /\ answers \in SeqsUpTo(AnswerSet, MaxAnswers)
    /\ polynomial = NoPolynomial
    /\ vault = NoVault
    /\ supplied = <<>>
    /\ idx = 0
    /\ shares = <<>>
    /\ result = NoResult
    /\ pc = "start"

Next == QuestionnairNew \/ AnswerBegin \/ AnswerStep \/ AnswerReconstruct

Spec == Init /\ [][Next]_vars

\* ---------------------------------------------------------------- polynomial layer alone
\* The points a caller may hand to Polynomial::reconstruct.
SharePoints == [x : Field, y : Field]

\* The elements of s at the positions of the set at, in increasing order.
RECURSIVE Pick(_, _)
Pick(s, at) ==
    IF at = {} THEN <<>>
    ELSE LET m == CHOOSE k \in at : \A l \in at : l <= k
         IN  Append(Pick(s, at \ {m}), s[m])

\* Polynomial::new called on its own (main.rs:149-161).
PolynomialNewCall ==
    /\ pc = "poly_start"
    /\ \E t \in 0..MaxQuestions :
         IF t = 0
         THEN /\ pc' \in {"poly_panicked", "poly_diverged"}
              /\ UNCHANGED polynomial
         ELSE /\ \E rnd \in RandomDraws(t) : polynomial' = PolynomialNew(t, secret, rnd)
              /\ pc' = "poly_built"
    /\ UNCHANGED <<sha, secret, questions, answers, vault, supplied, idx, shares, result>>

\* Polynomial::share then Polynomial::reconstruct on some of the shares
\* (main.rs:173-202).
ReconstructOwnShares ==
    /\ pc = "poly_built"
    /\ \E at \in SUBSET (1..(polynomial.degree + 1)) :
         shares' = Pick(Share(polynomial, polynomial.degree + 1), at)
    /\ result' = Reconstruct(shares')
    /\ pc' = "poly_reconstructed"
    /\ UNCHANGED <<sha, secret, questions, answers, polynomial, vault, supplied, idx>>

\* Polynomial::reconstruct on any slice of shares (main.rs:184-202).
ReconstructAnyShares ==
    /\ pc = "poly_start"
    /\ \E sh \in SeqsUpTo(SharePoints, MaxShares) : shares' = sh
    /\ result' = Reconstruct(shares')
    /\ pc' = "reconstructed"
    /\ UNCHANGED <<sha, secret, questions, answers, polynomial, vault, supplied, idx>>

InitPoly ==
    /\ sha \in {h \in ShaFamily : h.mul = 5 /\ h.add = 0}
    /\ secret \in Field
    /\ questions = <<>>
    /\ answers = <<>>
    /\ polynomial = NoPolynomial
    /\ vault = NoVault
    /\ supplied = <<>>
    /\ idx = 0
    /\ shares = <<>>
    /\ result = NoResult
    /\ pc = "poly_start"

NextPoly == PolynomialNewCall \/ ReconstructOwnShares \/ ReconstructAnyShares

SpecPoly == InitPoly /\ [][NextPoly]_vars

\* ---------------------------------------------------------------- properties
\* Positions at which a call of answer has ended.
AnswerEnded == {"done", "rejected", "answer_panicked", "answer_diverged"}
\* Positions at which a vault exists.
VaultBuilt == {"enrolled", "verifying"} \union AnswerEnded

\* C1 -- Vault round-trip: with |Q| = |A| = k >= 2, Questionnair::new builds a
\* vault whatever the random coefficients, and answer on that vault with the
\* same answers A ends with Ok(s), s being the enrolled secret.
VaultRoundTrip ==
    (Len(questions) = Len(answers) /\ Len(questions) >= 2) =>
        /\ pc \notin {"new_panicked", "new_diverged"}
        /\ (supplied = answers /\ pc \in AnswerEnded) =>
               (pc = "done" /\ result = Ok(secret))

\* A round trip over three questions with a nonzero random coefficient has ended.
VaultRoundTripWitness ==
    /\ pc = "done"
    /\ Len(questions) = 3
    /\ supplied = answers
    /\ \E i \in 1..(Len(polynomial.coefficients) - 1) : polynomial.coefficients[i] # 0
    /\ secret # 0
    /\ result = Ok(secret)

\* C2 -- Wrong-answer rejection: for a vault built with answers A and a
\* collision-free tag, answer with a list of the length of A that differs from A
\* ends with the "Wrong answer" error.
WrongAnswerRejected ==
    (/\ pc \in AnswerEnded
     /\ TagCollisionFree(sha)
     /\ Len(supplied) = Len(answers)
     /\ supplied # answers) => result = WrongAnswer

\* The same with as many enrolled answers as questions: this one holds.
WrongAnswerRejectedEqualLengths ==
    (/\ pc \in AnswerEnded
     /\ TagCollisionFree(sha)
     /\ Len(answers) = Len(questions)
     /\ Len(supplied) = Len(answers)
     /\ supplied # answers) => result = WrongAnswer

\* C3 -- Verify-before-reveal: when answer is rejected, no unmasking step
\* (a share points[i] - hash(answer_i) pushed) has been performed.
VerifyBeforeReveal == pc = "rejected" => shares = <<>>

\* C4 -- Recovery length check: answer ends without a field element whenever
\* the number of supplied answers differs from the number of questions.
RecoveryLengthCheck ==
    (pc \in AnswerEnded /\ Len(supplied) # Len(vault.questions)) => result.kind # "Ok"

\* C5 -- Enrollment precondition check: no vault is produced when
\* |questions| # |answers| or |questions| < 2.
EnrollmentPreconditionCheck ==
    (Len(questions) # Len(answers) \/ Len(questions) < 2) => pc \notin VaultBuilt

\* C6 -- All-or-nothing secrecy: for a vault over k >= 2 questions the
\* polynomial has k coefficients, and whichever share is left out, every other
\* secret has random coefficients that give the remaining k - 1 share values.
AllOrNothingSecrecy ==
    (pc = "enrolled" /\ Len(questions) >= 2) =>
        LET k == Len(questions)
            own == Share(polynomial, k)
        IN  /\ Len(polynomial.coefficients) = k
            /\ \A out \in 1..k : \A s2 \in Field : \E rnd \in RandomDraws(k) :
                 \A j \in (1..k) \ {out} :
                    Share(PolynomialNew(k, s2, rnd), k)[j].y = own[j].y

\* C7 -- Partial-information rejection: reconstruct on fewer than k shares of a
\* polynomial built by Polynomial::new(k, s) returns no field element.
PartialInformationRejected ==
    (pc = "poly_reconstructed" /\ Len(shares) < polynomial.degree + 1) =>
        result.kind # "Ok"

\* Lagrange interpolation at 0 through all the shares.
LagrangeAtZero(sh) == ReconstructSum(sh, 1..Len(sh), 1..Len(sh))
DistinctNonzero(sh) ==
    /\ \A i \in 1..Len(sh) : sh[i].x # 0
    /\ \A i, j \in 1..Len(sh) : sh[i].x = sh[j].x => i = j

\* C8 -- reconstruct is Lagrange interpolation at 0 over all n >= 1 supplied
\* shares with pairwise distinct nonzero x.
ReconstructIsLagrange ==
    (/\ pc \in {"reconstructed", "poly_reconstructed"}
     /\ Len(shares) >= 1
     /\ DistinctNonzero(shares)) => result = Ok(LagrangeAtZero(shares))

\* C9 -- Duplicate-or-zero index rejection: reconstruct signals an error
\* whenever two shares at different positions have equal x or a share has x = 0.
DuplicateOrZeroRejected ==
    (pc = "reconstructed" /\ ~DistinctNonzero(shares)) => result.kind = "Panic"

\* C10 -- Tag/key separation: the masking key of an enrolled answer (as many
\* answers as questions, at least two) is never the candidate of the second
\* digest H(H(a)), the one stored as its tag.
TagKeySeparation ==
    (pc = "enrolled" /\ Len(questions) = Len(answers) /\ Len(questions) >= 2) =>
        \A i \in 1..Len(vault.tags) : HashRun(sha, answers[i]).rounds # 2

====
